---------------------------- MODULE Spec2Model ----------------------------
(***************************************************************************)
(* A model of the PICA helper scripts:                                     *)
(*   dev/BIOS/preprocess_scripts/filter_gte_file.py        (script "gte")  *)
(*   dev/BIOS/preprocess_scripts/prepare_bios_eqtl_file.py (script "eqtl") *)
(*   dev/plot_scripts/overview_lineplot.py                 (script "plot") *)
(*   src/visualiser.py                                     (script "vis")  *)
(* Each behaviour is one invocation of one script (chosen in Init), and    *)
(* possibly a second invocation on the same inputs.  The file system is    *)
(* the set of directories `dirs` and the written files `files`.            *)
(***************************************************************************)
EXTENDS Integers, Sequences, FiniteSets, TLC

(***************************************************************************)
(* Bounds of the model.                                                    *)
(***************************************************************************)
MaxRows == 2

MaxSnps == 2

MaxEqtl == 2

MaxIter == 2

(***************************************************************************)
(* Sequences.                                                              *)
(***************************************************************************)
SeqsUpTo(S, n) == UNION {[1..k -> S] : k \in 0..n}

Range(s) == {s[k] : k \in DOMAIN s}

IndexOf(s, x) == IF x \in Range(s) THEN CHOOSE k \in DOMAIN s : s[k] = x /\ \A j \in 1..(k-1) : s[j] # x ELSE 0

RECURSIVE SumSeq(_)
SumSeq(s) == IF s = <<>> THEN 0 ELSE Head(s) + SumSeq(Tail(s))

RECURSIVE Flatten(_)
Flatten(ss) == IF ss = <<>> THEN <<>> ELSE Head(ss) \o Flatten(Tail(ss))

(***************************************************************************)
(* Paths are sequences of components; an absolute path starts with "/".    *)
(***************************************************************************)
IsAbs(p) == Len(p) > 0 /\ p[1] = "/"

\* os.path.join(a, b): an absolute b discards a.
Join(a, b) == IF IsAbs(b) THEN b ELSE a \o b

\* Path(p).parent
Parent(p) == IF Len(p) > 1 THEN SubSeq(p, 1, Len(p) - 1) ELSE p

\* The location the operating system resolves a path to: ".." steps up.
RECURSIVE ResolveFrom(_, _)
ResolveFrom(done, rest) ==
    IF rest = <<>> THEN done
    ELSE IF Head(rest) = ".." THEN ResolveFrom(Parent(done), Tail(rest))
    ELSE ResolveFrom(Append(done, Head(rest)), Tail(rest))

Resolve(p) == ResolveFrom(<<>>, p)

Prefixes(p) == {SubSeq(p, 1, k) : k \in 1..Len(p)}

Beneath(p, d) == Len(p) > Len(d) /\ SubSeq(p, 1, Len(d)) = d

\* A makedirs that creates nothing.
MakeDirsNothing(ds, d) == ds

\* os.makedirs(d): d and every missing ancestor.
MakeDirs(ds, d) == ds \cup Prefixes(Resolve(d))

(***************************************************************************)
(* Data frames: column names, one dtype per column, the index labels and   *)
(* the rows.  Cells of a "str" column are strings, of an "int64" column    *)
(* integers, of a "bool" column booleans; a "float64" or "boolna" column   *)
(* is what an int64 or bool column becomes once it holds a missing value:  *)
(* its cells are <<v>> or, for NaN, <<>>.                                  *)
(***************************************************************************)
MkDf(cols, dts, idx, rows) == [columns |-> cols, dtypes |-> dts, index |-> idx, data |-> rows]

EmptyDf == MkDf(<<>>, <<>>, <<>>, <<>>)

NRows(df) == Len(df.data)

RangeIndex(n) == [k \in 1..n |-> k - 1]

HasCol(df, c) == c \in Range(df.columns)

ColPos(df, c) == IndexOf(df.columns, c)

\* df[c] as the sequence of its cells
Col(df, c) == [k \in 1..NRows(df) |-> df.data[k][ColPos(df, c)]]

\* df.loc[:, cols]
SelectCols(df, cols) ==
    MkDf(cols, [j \in 1..Len(cols) |-> df.dtypes[ColPos(df, cols[j])]], df.index,
         [k \in 1..NRows(df) |-> [j \in 1..Len(cols) |-> df.data[k][ColPos(df, cols[j])]]])

\* The positions of mask that hold TRUE, ascending.
RECURSIVE KeptPositions(_, _)
KeptPositions(mask, k) ==
    IF k > Len(mask) THEN <<>>
    ELSE (IF mask[k] THEN <<k>> ELSE <<>>) \o KeptPositions(mask, k + 1)

\* df.loc[mask, :]
SelectRows(df, mask) ==
    LET keep == KeptPositions(mask, 1)
    IN  MkDf(df.columns, df.dtypes, [j \in 1..Len(keep) |-> df.index[keep[j]]],
             [j \in 1..Len(keep) |-> df.data[keep[j]]])

\* df.insert(0, name, value) with an integer constant
InsertFirst(df, name, value) ==
    MkDf(<<name>> \o df.columns, <<"int64">> \o df.dtypes, df.index,
         [k \in 1..NRows(df) |-> <<value>> \o df.data[k]])

\* df[name] = values (a new last column, or an existing one replaced)
SetCol(df, name, dt, values) ==
    IF HasCol(df, name)
    THEN MkDf(df.columns, [df.dtypes EXCEPT ![ColPos(df, name)] = dt], df.index,
              [k \in 1..NRows(df) |-> [df.data[k] EXCEPT ![ColPos(df, name)] = values[k]]])
    ELSE MkDf(Append(df.columns, name), Append(df.dtypes, dt), df.index,
              [k \in 1..NRows(df) |-> Append(df.data[k], values[k])])

(***************************************************************************)
(* DataFrame.to_csv: one line per row, a line being its tab-separated      *)
(* fields as text; NaN is written as the empty field, a float with its     *)
(* decimal point.                                                          *)
(***************************************************************************)
FormatCell(cell, dt) ==
    CASE dt = "str"     -> cell
      [] dt = "int64"   -> ToString(cell)
      [] dt = "bool"    -> IF cell THEN "True" ELSE "False"
      [] dt = "float64" -> IF cell = <<>> THEN "" ELSE ToString(cell[1]) \o ".0"
      [] dt = "boolna"  -> IF cell = <<>> THEN "" ELSE IF cell[1] THEN "True" ELSE "False"

ToCsv(df, header, index) ==
    LET ncol == Len(df.columns)
        line(k) == (IF index THEN <<ToString(df.index[k])>> ELSE <<>>)
                   \o [j \in 1..ncol |-> FormatCell(df.data[k][j], df.dtypes[j])]
    IN  (IF header THEN <<(IF index THEN <<"">> ELSE <<>>) \o df.columns>> ELSE <<>>)
        \o [k \in 1..NRows(df) |-> line(k)]

\* The bytes of a written file.  A gzip stream holds, besides the
\* compressed payload, the time at which it was written (GzipFile's mtime
\* header field, the current time when none is passed).
PlainBytes(lines) == [gz |-> FALSE, mtime |-> 0, payload |-> lines]

GzipBytes(lines, now) == [gz |-> TRUE, mtime |-> now, payload |-> lines]

\* save_file: gzip iff the path ends in ".gz"
EndsWithGz(name) == name \in {"GenotypeToExpression.txt.gz", "SampleToDataset.txt.gz", "BIOS_eQTLProbesFDR0.05-ProbeLevel.txt.gz"}

SavedBytes(df, name, header, index, now) ==
    IF EndsWithGz(name) THEN GzipBytes(ToCsv(df, header, index), now)
    ELSE PlainBytes(ToCsv(df, header, index))


(***************************************************************************)
(* The content of an input file: absent, not parseable, or a table.        *)
(***************************************************************************)
Missing == [kind |-> "missing", df |-> EmptyDf]

Malformed == [kind |-> "malformed", df |-> EmptyDf]

Table(df) == [kind |-> "table", df |-> df]

StrTable(cols, rows) == Table(MkDf(cols, [j \in 1..Len(cols) |-> "str"], RangeIndex(Len(rows)), rows))

\* Python's None, as the value of an argument that was not passed.
NoneValue == "<None>"

(***************************************************************************)
(* Where the scripts live (__file__), and the directories that exist       *)
(* before any script runs.                                                 *)
(***************************************************************************)
GteFile == <<"/", "PICA", "dev", "BIOS", "preprocess_scripts", "filter_gte_file.py">>

EqtlFile == <<"/", "PICA", "dev", "BIOS", "preprocess_scripts", "prepare_bios_eqtl_file.py">>

PlotFile == <<"/", "PICA", "dev", "plot_scripts", "overview_lineplot.py">>

VisFile == <<"/", "PICA", "src", "visualiser.py">>

InitialDirs == Prefixes(Parent(GteFile)) \cup Prefixes(Parent(PlotFile)) \cup {<<"/", "tmp">>, <<"/", "PICA", "output">>}

(***************************************************************************)
(* Inputs of the GTE filter script.                                        *)
(***************************************************************************)
GteColumns == <<"genotype_id", "rnaseq_id", "dataset">>

GteRowValues == {<<"g1", "r1", "d1">>, <<"g2", "r2", "d1">>, <<"g3", "r1", "d2">>}

ExclRowValues == {<<"g1", "r1", "d1">>, <<"g9", "r9", "d2">>}

GteContents == {Missing, Malformed} \cup {StrTable(GteColumns, rows) : rows \in SeqsUpTo(GteRowValues, MaxRows)}

\* The exclusion table in GTE format, or a bare list of rnaseq_id values.
ExclContents ==
    {Missing, Malformed, StrTable(<<"rnaseq_id">>, << <<"r1">> >>)}
    \cup {StrTable(GteColumns, rows) : rows \in SeqsUpTo(ExclRowValues, MaxRows - 1)}

OutdirArgs == {<<"BIOS_noRNAPhenoNA">>, <<"/", "tmp", "elsewhere">>, <<"..", "..", "elsewhere">>}

\* One command line and the files it names.  -e and -o are required by the
\* parser, -gte is not (default None).
GteScenarios ==
    {[args |-> [valid |-> TRUE, genotype_to_expression |-> "BIOS_GTE.txt.gz",
                exclude_genotype_to_expression |-> "exclude.txt.gz", outdir |-> o],
      inputs |-> [n \in {"BIOS_GTE.txt.gz", "exclude.txt.gz"} |-> IF n = "BIOS_GTE.txt.gz" THEN g ELSE e]] :
        g \in GteContents, e \in ExclContents, o \in OutdirArgs}
    \cup
    {[args |-> [valid |-> v, genotype_to_expression |-> NoneValue,
                exclude_genotype_to_expression |-> "exclude.txt.gz", outdir |-> <<"BIOS_noRNAPhenoNA">>],
      inputs |-> [n \in {"BIOS_GTE.txt.gz", "exclude.txt.gz"} |-> StrTable(GteColumns, << <<"g1", "r1", "d1">> >>)]] :
        v \in BOOLEAN}


(***************************************************************************)
(* Inputs of the eQTL preparation script.                                  *)
(***************************************************************************)
\* main.__init__, lines 72-73
dataset_order == <<"RS", "LL", "LLS_660Q", "NTR_AFFY", "LLS_OmniExpr", "CODAM", "PAN", "NTR_GONL", "GONL">>

dataset_sizes == <<765, 733, 400, 341, 255, 184, 169, 138, 74>>

\* Column orders of the SNP x dataset matrix file (the SNP identifier is
\* its first column): the order of dataset_order, its reverse, one with a
\* further cohort column, and one that lacks a cohort.
Reverse(s) == [k \in 1..Len(s) |-> s[Len(s) + 1 - k]]

SnpLayouts == {dataset_order, Reverse(dataset_order), <<"GONL", "EXTRA">> \o SubSeq(dataset_order, 1, 8)}

SnpLayoutLacking == SubSeq(dataset_order, 1, 8)

\* The cohorts in which a SNP is present.
PresenceSets == {{"RS", "LLS_660Q", "GONL", "EXTRA"}, {"LL", "PAN"}}

SnpIds == {"s1", "s2"}

SnpRow(id, present, layout) == <<id>> \o [j \in 1..Len(layout) |-> layout[j] \in present]

SnpTable(layout, rows) ==
    Table(MkDf(<<"SNP">> \o layout, <<"str">> \o [j \in 1..Len(layout) |-> "bool"], RangeIndex(Len(rows)),
               [k \in 1..Len(rows) |-> SnpRow(rows[k][1], rows[k][2], layout)]))

SnpContents ==
    {Missing, Malformed, SnpTable(SnpLayoutLacking, << <<"s1", {"RS"}>> >>)}
    \cup {SnpTable(layout, rows) : layout \in SnpLayouts, rows \in SeqsUpTo(SnpIds \X PresenceSets, MaxSnps)}

\* The eQTL table: its SNP is one with a row in the matrix (s1) or one
\* without (s3).  Also a table that already has the new column names, one
\* with no SNP column, and one with a column named like a cohort and a
\* column named "index".
EqtlRowValues == {<<"s1", "g1", "0.01">>, <<"s3", "g2", "0.04">>}

EqtlContents ==
    {Missing, Malformed,
     StrTable(<<"SNPName", "ProbeName", "FDR">>, << <<"s1", "g1", "0.01">> >>),
     StrTable(<<"Gene", "FDR">>, << <<"g1", "0.01">> >>),
     StrTable(<<"SNP", "Gene", "LL", "index">>, << <<"s1", "g1", "yes", "row7">> >>)}
    \cup {StrTable(<<"SNP", "Gene", "FDR">>, rows) : rows \in SeqsUpTo(EqtlRowValues, MaxEqtl)}

EqtlInputNames == {"eqtl.txt.gz", "SNP_dataset_matrix.txt.gz"}

\* -e and -s are both required by the parser.
EqtlScenarios ==
    {[args |-> [valid |-> TRUE, eqtl |-> "eqtl.txt.gz", snps |-> "SNP_dataset_matrix.txt.gz"],
      inputs |-> [n \in EqtlInputNames |-> IF n = "eqtl.txt.gz" THEN e ELSE m]] :
        e \in EqtlContents, m \in SnpContents}
    \cup
    {[args |-> [valid |-> FALSE, eqtl |-> "eqtl.txt.gz", snps |-> NoneValue],
      inputs |-> [n \in EqtlInputNames |-> Missing]]}


(***************************************************************************)
(* Inputs of the overview line-plot script: for each component PIC1..PIC10 *)
(* an info_df.txt.gz, or none.                                             *)
(***************************************************************************)
\* start, line 118: range(1, 11)
NumComponents == 10

PIC(i) == "PIC" \o ToString(i)

PlotInputNames == {PIC(i) : i \in 1..NumComponents}

InfoLayouts == {<<"covariate", "Overlap %", "Log Likelihood">>, <<"covariate", "/tmp/N">>,
                <<"covariate", "likelihood", "Likelihoods">>}

LikelihoodValues == <<1, 10, 100>>

\* The info_df of component i with n iterations: the row labels
\* iteration0.., the covariate of each iteration and the measured values.
InfoCell(col, i, k) ==
    CASE col = "covariate"      -> IF k = 0 THEN "cov" \o ToString(i) ELSE "cov" \o ToString(i) \o "_opt"
      [] col = "Overlap %"      -> 100 - k
      [] col = "Log Likelihood" -> LikelihoodValues[((i + k) % 3) + 1]
      [] col = "/tmp/N"         -> k + 1
      [] col = "likelihood"     -> k + 1
      [] col = "Likelihoods"    -> LikelihoodValues[((i + k) % 3) + 1]

InfoTable(layout, i, n) ==
    Table(MkDf(<<"">> \o layout,
               <<"str">> \o [j \in 1..Len(layout) |-> IF layout[j] = "covariate" THEN "str" ELSE "int64"],
               RangeIndex(n),
               [k \in 1..n |-> <<"iteration" \o ToString(k - 1)>> \o [j \in 1..Len(layout) |-> InfoCell(layout[j], i, k - 1)]]))

\* The components differ in their number of iterations.
InfoRows(i, shift) == 1 + ((i + shift) % MaxIter)

PlotOutdir == Join(Parent(Parent(PlotFile)), <<"plot">>)

\* -i is required by the parser.  The output directory may exist already.
PlotScenarios ==
    {[args |-> [valid |-> TRUE, indir |-> "picalo_output"], dirs |-> InitialDirs,
      inputs |-> [n \in PlotInputNames |->
                    IF \E i \in present : n = PIC(i)
                    THEN InfoTable(<<"covariate", "Overlap %", "Log Likelihood">>,
                                   CHOOSE i \in present : n = PIC(i),
                                   InfoRows(CHOOSE i \in present : n = PIC(i), shift))
                    ELSE Missing]] :
        present \in SUBSET (1..NumComponents), shift \in 0..(MaxIter - 1)}
    \cup
    {[args |-> [valid |-> v, indir |-> "picalo_output"], dirs |-> d,
      inputs |-> [n \in PlotInputNames |-> IF n = "PIC1" THEN InfoTable(layout, 1, 2) ELSE Missing]] :
        v \in BOOLEAN, d \in {InitialDirs, MakeDirs(InitialDirs, PlotOutdir)}, layout \in InfoLayouts}


(***************************************************************************)
(* Inputs of Visualiser.plot: the caller's out_path, the ieQTL, the        *)
(* iteration, and the optional fdr and ocf.  An ocf of the wrong length    *)
(* cannot be indexed by the model's mask.                                  *)
(***************************************************************************)
OutPaths == {<<"/", "PICA", "output">>, <<"/", "tmp", "run1">>}

VisOutdir(out_path) == Join(out_path, <<"plot">>)

(***************************************************************************)
(* Numbers of the visualiser.  The design matrix holds genotype dosages,   *)
(* which need not be whole, so every number is kept as a count of halves:  *)
(* 3 stands for 1.5.                                                       *)
(***************************************************************************)
Whole(n) == 2 * n

\* a * b; one of the two factors is whole wherever the code multiplies
Times(a, b) == (a * b) \div 2

\* round(0): to the nearest whole number, a half to the even neighbour
Round0(h) ==
    IF h % 2 = 0 THEN h
    ELSE IF ((h - 1) \div 2) % 2 = 0 THEN h - 1 ELSE h + 1

(***************************************************************************)
(* src.statistics is imported by visualiser.py and is not part of the      *)
(* sources: the vertex of a quadratic a*x^2 + b*x + c is at -b / (2a); the *)
(* explained variance of a fit is kept as the term it is computed from.    *)
(***************************************************************************)
calc_vertex_xpos(a, b) == [k \in 1..Len(a) |-> (0 - b[k]) \div a[k]]

fit_and_predict(X, yv) == [predicted |-> "ols", X |-> X, y |-> yv]

calc_pearsonr(xv, yv) == [stat |-> "pearsonr", x |-> xv, y |-> yv]

\* pearsonr * pearsonr
Squared(r) == [stat |-> "squared", of |-> r]

\* stats.spearmanr(a, b)[0], formatted with two decimals
spearmanr(a, b) == [stat |-> "spearmanr", a |-> a, b |-> b]

(***************************************************************************)
(* The ieQTL model objects handed to Visualiser.plot.  X has the columns   *)
(* intercept, genotype, covariate, interaction, one row per sample kept by *)
(* the mask; the mask covers one sample more than X has rows.              *)
(***************************************************************************)
GenotypeVectors ==
    {<<0, 2, 4, 4>>,        \* 0, 1, 2, 2
     <<1, 3, 2, 0>>,        \* 0.5, 1.5, 1, 0: dosages
     <<0, 2, 5, 4, 4>>,     \* 0, 1, 2.5, 2, 2
     <<0, 2, 2>>,           \* no sample of genotype 2
     <<0, 2, 4, 6>>}        \* a genotype of 3

CovariateOf(k) == Whole(k - 2)

ExpressionOf(k) == Whole(3 * k) + 1

DesignMatrix(genotype) ==
    [k \in 1..Len(genotype) |-> <<Whole(1), genotype[k], CovariateOf(k), Times(genotype[k], CovariateOf(k))>>]

\* The mask leaves out one sample, the first one or the last one.
MaskLeavingOut(n, first) == [k \in 1..(n + 1) |-> IF first THEN k # 1 ELSE k # n + 1]

IeqtlModels ==
    {[X |-> DesignMatrix(g), y |-> [k \in 1..Len(g) |-> ExpressionOf(k)],
      mask |-> MaskLeavingOut(Len(g), first),
      coef_a |-> [k \in 1..Len(g) |-> IF k % 2 = 0 THEN Whole(1) ELSE Whole(-1)],
      coef_b |-> [k \in 1..Len(g) |-> Whole(2 * k)],
      id |-> "snp1_gene1"] : g \in GenotypeVectors, first \in BOOLEAN}

NoIeqtl == [X |-> <<>>, y |-> <<>>, mask |-> <<>>, coef_a |-> <<>>, coef_b |-> <<>>, id |-> ""]

\* The optional ocf: None, or one value per sample of the mask.
NoOcf == [given |-> FALSE, values |-> <<>>]

OcfArray(n) == [given |-> TRUE, values |-> [k \in 1..n |-> Whole(10 + k)]]

OcfArguments(m) == {NoOcf, OcfArray(Len(m.mask)), OcfArray(Len(m.mask) + 1)}

VisScenarios ==
    UNION {{[args |-> [valid |-> TRUE, out_path |-> o, ieqtl |-> m, iteration |-> it, fdr |-> f, ocf |-> c],
             dirs |-> d, inputs |-> [n \in {} |-> Missing]] :
               o \in OutPaths, it \in {0, 1}, f \in {NoneValue, "0.05"}, c \in OcfArguments(m),
               d \in {InitialDirs, MakeDirs(InitialDirs, VisOutdir(<<"/", "PICA", "output">>))}} :
           m \in IeqtlModels}

VARIABLES
    script,         \* which script this behaviour invokes
    pc,             \* the position of the running script
    args,           \* the parsed command line
    inputs,         \* the input files: name -> content
    dirs,           \* the directories that exist
    files,          \* the written files: resolved path -> bytes
    files0,         \* the written files as they were when this run started
    pc0,            \* how the first run ended, "" during the first run
    run,            \* "first" or "second" invocation on these inputs
    clock,          \* the current time, in seconds
    log,            \* what this run has done so far: <<operation, name>>
    err,            \* the exception that ended the run, "" if none
    outdir,         \* self.outdir
    gte_df, se_df, subset_gte_df,
    eqtl_df, snps_df, top_eqtl_df,
    i,              \* overview_lineplot: the loop counter of start
    info_dict,      \* component -> its iteration0 covariate
    df_m_list,      \* the long-form frames of the loaded components
    df_m,           \* their concatenation
    plotted,        \* the number of variables plotted so far
    solo_optimized, \* Visualiser.plot: whether the ocf was derived, not given
    p2_ci,          \* the confidence interval of the second panel
    ieqtl,          \* the model object: X, y, mask and the two coefficients
    X_start, y_vec, \* the copies of ieqtl.X and ieqtl.y (y in the code)
    ocf,            \* the optimized covariate, <<>> before it is set
    X_opt,          \* the optimized design matrix
    r_squared_start, r_squared_opt  \* <<>> for None, else <<the value>>

vars == <<script, pc, args, inputs, dirs, files, files0, pc0, run, clock, log, err, outdir,
          gte_df, se_df, subset_gte_df, eqtl_df, snps_df, top_eqtl_df,
          i, info_dict, df_m_list, df_m, plotted, solo_optimized, p2_ci,
          ieqtl, X_start, y_vec, ocf, X_opt, r_squared_start, r_squared_opt>>

visMem == <<solo_optimized, p2_ci, ieqtl, X_start, y_vec, ocf, X_opt, r_squared_start, r_squared_opt>>

plotMem == <<i, info_dict, df_m_list, df_m, plotted>>

gteMem == <<gte_df, se_df, subset_gte_df>>

eqtlMem == <<eqtl_df, snps_df, top_eqtl_df>>

\* What the steps of one script leave alone: the memory of the others.
notGte == <<eqtlMem, plotMem, visMem>>

notEqtl == <<gteMem, plotMem, visMem>>

notPlot == <<gteMem, eqtlMem, visMem>>

notVis == <<gteMem, eqtlMem, plotMem>>

env == <<script, args, inputs, files0, pc0, run, clock>>

NoFiles == [p \in {} |-> PlainBytes(<<>>)]

NoInfo == [c \in {} |-> ""]

Init ==
    /\ script \in {"gte", "eqtl", "plot", "vis"}
    /\ \/ /\ script \in {"gte", "eqtl"}
          /\ \E sc \in (IF script = "gte" THEN GteScenarios ELSE EqtlScenarios) :
                args = sc.args /\ inputs = sc.inputs
          /\ dirs = InitialDirs
          /\ ieqtl = NoIeqtl
       \/ /\ script = "plot"
          /\ \E sc \in PlotScenarios : args = sc.args /\ inputs = sc.inputs /\ dirs = sc.dirs
          /\ ieqtl = NoIeqtl
       \/ /\ script = "vis"
          /\ \E sc \in VisScenarios :
                args = sc.args /\ inputs = sc.inputs /\ dirs = sc.dirs /\ ieqtl = sc.args.ieqtl
    /\ pc = "start"
    /\ files = NoFiles
    /\ files0 = NoFiles
    /\ pc0 = ""
    /\ run = "first"
    /\ clock = 0
    /\ log = <<>>
    /\ err = ""
    /\ outdir = <<>>
    /\ gte_df = EmptyDf /\ se_df = EmptyDf /\ subset_gte_df = EmptyDf
    /\ eqtl_df = EmptyDf /\ snps_df = EmptyDf /\ top_eqtl_df = EmptyDf
    /\ i = 1 /\ info_dict = NoInfo /\ df_m_list = <<>> /\ df_m = EmptyDf /\ plotted = 0
    /\ solo_optimized = FALSE /\ p2_ci = NoneValue
    /\ X_start = <<>> /\ y_vec = <<>> /\ ocf = <<>> /\ X_opt = <<>>
    /\ r_squared_start = <<>> /\ r_squared_opt = <<>>

(***************************************************************************)
(* Steps shared by the scripts.                                            *)
(***************************************************************************)
\* An exception ends the run.
Raise(e) == pc' = "failed" /\ err' = e

\* A load that takes a file it cannot parse for an empty table.
LoadErrorSwallowed(inpath) ==
    IF inpath = NoneValue THEN "AttributeError"
    ELSE IF inputs[inpath].kind = "missing" THEN "FileNotFoundError"
    ELSE ""

\* load_file(inpath, header=0, index_col=None): read_csv's own failure, or
\* the table with a fresh RangeIndex.
LoadError(inpath) ==
    IF inpath = NoneValue THEN "AttributeError"
    ELSE IF inputs[inpath].kind = "missing" THEN "FileNotFoundError"
    ELSE IF inputs[inpath].kind = "malformed" THEN "ParserError"
    ELSE ""

LoadFile(inpath) == inputs[inpath].df

\* What can happen to a write: it succeeds, the file cannot be opened, or
\* the write breaks off after the file was opened (and truncated).
SaveOutcomes(path) ==
    IF Parent(Resolve(path)) \in dirs THEN {"ok", "open_failed", "write_failed"} ELSE {"open_failed"}

\* A write that appends to the file that is there instead of replacing it.
WrittenAppending(fs, path, bytes, outcome) ==
    CASE outcome = "ok"           ->
            (Resolve(path) :> IF Resolve(path) \in DOMAIN fs
                              THEN [bytes EXCEPT !.payload = fs[Resolve(path)].payload \o bytes.payload]
                              ELSE bytes) @@ fs
      [] outcome = "open_failed"  -> fs
      [] outcome = "write_failed" -> (Resolve(path) :> [bytes EXCEPT !.payload = <<>>]) @@ fs

Written(fs, path, bytes, outcome) ==
    CASE outcome = "ok"           -> (Resolve(path) :> bytes) @@ fs
      [] outcome = "open_failed"  -> fs
      [] outcome = "write_failed" -> (Resolve(path) :> [bytes EXCEPT !.payload = <<>>]) @@ fs

\* save_file(df, outpath, header, index): the step to `next`, or the failure.
SaveFile(df, name, header, index, next) ==
    \E outcome \in SaveOutcomes(Join(outdir, <<name>>)) :
        /\ files' = Written(files, Join(outdir, <<name>>), SavedBytes(df, name, header, index, clock), outcome)
        /\ log' = Append(log, <<"save", name>>)
        /\ IF outcome = "ok" THEN pc' = next /\ err' = err ELSE Raise("OSError")

(***************************************************************************)
(* filter_gte_file.py                                                      *)
(***************************************************************************)
\* The output directory beside the script instead of beside its directory.
GteOutdirBesideScript(o) == Join(Join(Parent(GteFile), <<"filter_gte_file">>), o)

GteOutdir(o) == Join(Join(Parent(Parent(GteFile)), <<"filter_gte_file">>), o)

\* main.__init__: parse the command line, set and create self.outdir.
GteInit ==
    /\ script = "gte" /\ pc = "start"
    /\ IF ~args.valid
       THEN /\ pc' = "usage" /\ err' = "SystemExit"
            /\ UNCHANGED <<outdir, dirs, log>>
       ELSE /\ outdir' = GteOutdir(args.outdir)
            /\ dirs' = IF Resolve(outdir') \in dirs THEN dirs ELSE MakeDirs(dirs, outdir')
            /\ log' = Append(log, <<"makedirs", "outdir">>)
            /\ pc' = "init" /\ err' = err
    /\ UNCHANGED <<env, files, gteMem, notGte>>

\* start, line 110: gte_df = load_file(gte_path)
GteLoadGte ==
    /\ script = "gte" /\ pc = "init"
    /\ log' = Append(log, <<"load", args.genotype_to_expression>>)
    /\ IF LoadError(args.genotype_to_expression) # ""
       THEN Raise(LoadError(args.genotype_to_expression)) /\ UNCHANGED gte_df
       ELSE gte_df' = LoadFile(args.genotype_to_expression) /\ pc' = "loaded_gte" /\ err' = err
    /\ UNCHANGED <<env, dirs, files, outdir, se_df, subset_gte_df, notGte>>

\* start, lines 111-114: se_df = load_file(e_gte_path); the printed
\* se_df["dataset"].value_counts() needs the column.
GteLoadSe ==
    /\ script = "gte" /\ pc = "loaded_gte"
    /\ log' = Append(log, <<"load", args.exclude_genotype_to_expression>>)
    /\ IF LoadError(args.exclude_genotype_to_expression) # ""
       THEN Raise(LoadError(args.exclude_genotype_to_expression)) /\ UNCHANGED se_df
       ELSE /\ se_df' = LoadFile(args.exclude_genotype_to_expression)
            /\ IF HasCol(se_df', "dataset") THEN pc' = "loaded" /\ err' = err ELSE Raise("KeyError")
    /\ UNCHANGED <<env, dirs, files, outdir, gte_df, subset_gte_df, notGte>>

\* The mask with its two outcomes exchanged: the excluded rows are kept.
RemoveMaskInverted(gte, se) ==
    LET remove_rnaseq_ids == Range(Col(se, "rnaseq_id"))
    IN  [k \in 1..NRows(gte) |-> IF Col(gte, "rnaseq_id")[k] \in remove_rnaseq_ids THEN TRUE ELSE FALSE]

\* start, lines 119-120: the rows to keep
RemoveMask(gte, se) ==
    LET remove_rnaseq_ids == Range(Col(se, "rnaseq_id"))
    IN  [k \in 1..NRows(gte) |-> IF Col(gte, "rnaseq_id")[k] \in remove_rnaseq_ids THEN FALSE ELSE TRUE]

\* start, lines 118-122: subset_gte_df = gte_df.loc[mask, :]; del gte_df
GteRemove ==
    /\ script = "gte" /\ pc = "loaded"
    /\ IF HasCol(se_df, "rnaseq_id") /\ HasCol(gte_df, "rnaseq_id")
       THEN /\ subset_gte_df' = SelectRows(gte_df, RemoveMask(gte_df, se_df))
            /\ gte_df' = EmptyDf
            /\ pc' = "removed" /\ err' = err
       ELSE Raise("KeyError") /\ UNCHANGED <<gte_df, subset_gte_df>>
    /\ UNCHANGED <<env, dirs, files, log, outdir, se_df, notGte>>

\* start, line 128
GteSaveGte ==
    /\ script = "gte" /\ pc = "removed"
    /\ SaveFile(subset_gte_df, "GenotypeToExpression.txt.gz", TRUE, FALSE, "saved_gte")
    /\ UNCHANGED <<env, dirs, outdir, gteMem, notGte>>

\* The sample-to-dataset frame without the renaming of its columns.
StdDfNotRenamed(subset) == SelectCols(subset, <<"rnaseq_id", "dataset">>)

\* start, lines 131-132: the sample-to-dataset frame
StdDf(subset) ==
    LET std_df == SelectCols(subset, <<"rnaseq_id", "dataset">>)
    IN  [std_df EXCEPT !.columns = <<"sample", "dataset">>]

\* start, lines 131-133
GteSaveStd ==
    /\ script = "gte" /\ pc = "saved_gte"
    /\ IF HasCol(subset_gte_df, "rnaseq_id") /\ HasCol(subset_gte_df, "dataset")
       THEN SaveFile(StdDf(subset_gte_df), "SampleToDataset.txt.gz", TRUE, FALSE, "saved_std")
       ELSE Raise("KeyError") /\ UNCHANGED <<files, log>>
    /\ UNCHANGED <<env, dirs, outdir, gteMem, notGte>>

\* start, lines 136-137: the family-to-genotype frame
GteFidDf(subset) == InsertFirst(SelectCols(subset, <<"genotype_id">>), "family_id", 0)

\* start, lines 136-138
GteSaveFid ==
    /\ script = "gte" /\ pc = "saved_std"
    /\ IF HasCol(subset_gte_df, "genotype_id")
       THEN SaveFile(GteFidDf(subset_gte_df), "FamilyToGenotype.txt", FALSE, FALSE, "done")
       ELSE Raise("KeyError") /\ UNCHANGED <<files, log>>
    /\ UNCHANGED <<env, dirs, outdir, gteMem, notGte>>

(***************************************************************************)
(* prepare_bios_eqtl_file.py                                               *)
(***************************************************************************)
EqtlOutdir == Join(Parent(Parent(EqtlFile)), <<"prepare_bios_eqtl_file_test">>)

\* main.__init__: parse the command line, set and create self.outdir.
EqtlInit ==
    /\ script = "eqtl" /\ pc = "start"
    /\ IF ~args.valid
       THEN /\ pc' = "usage" /\ err' = "SystemExit"
            /\ UNCHANGED <<outdir, dirs, log>>
       ELSE /\ outdir' = EqtlOutdir
            /\ dirs' = IF Resolve(outdir') \in dirs THEN dirs ELSE MakeDirs(dirs, outdir')
            /\ log' = Append(log, <<"makedirs", "outdir">>)
            /\ pc' = "init" /\ err' = err
    /\ UNCHANGED <<env, files, notEqtl, eqtlMem>>

\* start, line 104: eqtl_df = load_file(eqtl_path, index_col=None)
EqtlLoadEqtl ==
    /\ script = "eqtl" /\ pc = "init"
    /\ log' = Append(log, <<"load", args.eqtl>>)
    /\ IF LoadError(args.eqtl) # ""
       THEN Raise(LoadError(args.eqtl)) /\ UNCHANGED eqtl_df
       ELSE eqtl_df' = LoadFile(args.eqtl) /\ pc' = "loaded_eqtl" /\ err' = err
    /\ UNCHANGED <<env, dirs, files, outdir, notEqtl, snps_df, top_eqtl_df>>

\* read_csv(index_col=0): the first column becomes the index.
FirstColAsIndex(df) ==
    MkDf(Tail(df.columns), Tail(df.dtypes), [k \in 1..NRows(df) |-> df.data[k][1]],
         [k \in 1..NRows(df) |-> Tail(df.data[k])])

\* start, line 105: snps_df = load_file(snps_path, index_col=0)
EqtlLoadSnps ==
    /\ script = "eqtl" /\ pc = "loaded_eqtl"
    /\ log' = Append(log, <<"load", args.snps>>)
    /\ IF LoadError(args.snps) # ""
       THEN Raise(LoadError(args.snps)) /\ UNCHANGED snps_df
       ELSE snps_df' = FirstColAsIndex(LoadFile(args.snps)) /\ pc' = "loaded" /\ err' = err
    /\ UNCHANGED <<env, dirs, files, outdir, notEqtl, eqtl_df, top_eqtl_df>>

\* start, lines 110-111
trans_dict(x) == IF x = "SNP" THEN "SNPName" ELSE IF x = "Gene" THEN "ProbeName" ELSE x

RenameColumns(df) == [df EXCEPT !.columns = [j \in 1..Len(df.columns) |-> trans_dict(df.columns[j])]]

BoolToInt(b) == IF b THEN 1 ELSE 0

\* The row sum over the columns that dataset_order names only.
NDatasetsOfOrder(df) ==
    [k \in 1..NRows(df) |->
        SumSeq([j \in 1..Len(df.columns) |->
                  IF df.columns[j] \in Range(dataset_order) THEN BoolToInt(df.data[k][j]) ELSE 0])]

\* start, line 113: snps_df.sum(axis=1), over every column of the frame
NDatasets(df) == [k \in 1..NRows(df) |-> SumSeq([j \in 1..Len(df.columns) |-> BoolToInt(df.data[k][j])])]

\* The dot product with the columns taken by position, not by name.
NSamplesByPosition(df) ==
    [k \in 1..NRows(df) |-> SumSeq([j \in 1..Len(dataset_order) |-> BoolToInt(df.data[k][j]) * dataset_sizes[j]])]

\* start, line 114: np.dot(snps_df.loc[:, dataset_order].to_numpy(), dataset_sizes)
NSamples(df) ==
    LET m == SelectCols(df, dataset_order)
    IN  [k \in 1..NRows(df) |-> SumSeq([j \in 1..Len(dataset_order) |-> BoolToInt(m.data[k][j]) * dataset_sizes[j]])]

\* start, lines 109-117 (line 115 clears the index name, which no output shows)
EqtlPreprocess ==
    /\ script = "eqtl" /\ pc = "loaded"
    /\ eqtl_df' = RenameColumns(eqtl_df)
    /\ IF \A j \in 1..Len(dataset_order) : HasCol(snps_df, dataset_order[j])
       THEN /\ snps_df' = LET with_n == SetCol(snps_df, "N datasets", "int64", NDatasets(snps_df))
                          IN  SetCol(with_n, "N samples", "int64", NSamples(with_n))
            /\ pc' = "preprocessed" /\ err' = err
       ELSE /\ snps_df' = SetCol(snps_df, "N datasets", "int64", NDatasets(snps_df))
            /\ Raise("KeyError")
    /\ UNCHANGED <<env, dirs, files, log, outdir, notEqtl, top_eqtl_df>>

\* The positions of the right frame's rows whose index label is key, ascending.
RECURSIVE MatchesFrom(_, _, _)
MatchesFrom(right, key, k) ==
    IF k > NRows(right) THEN <<>>
    ELSE (IF right.index[k] = key THEN <<k>> ELSE <<>>) \o MatchesFrom(right, key, k + 1)

\* Only the first of the right rows that match.
FirstMatch(right, key) ==
    IF MatchesFrom(right, key, 1) = <<>> THEN <<>> ELSE <<MatchesFrom(right, key, 1)[1]>>

Matches(right, key) == MatchesFrom(right, key, 1)

\* A column that receives a missing value changes its dtype.
Upcast(dt) == IF dt = "int64" THEN "float64" ELSE IF dt = "bool" THEN "boolna" ELSE dt

\* The join with how="inner": a left row that matches no right row is dropped.
MergeInner(left, right, on) ==
    LET keys == Col(left, on)
        nright == Len(right.columns)
        pairs == Flatten([k \in 1..NRows(left) |->
                    [j \in 1..Len(Matches(right, keys[k])) |-> <<k, Matches(right, keys[k])[j]>>]])
    IN  MkDf(left.columns \o right.columns, left.dtypes \o right.dtypes,
             [n \in 1..Len(pairs) |-> left.index[pairs[n][1]]],
             [n \in 1..Len(pairs) |-> left.data[pairs[n][1]] \o right.data[pairs[n][2]]])

\* merge(suffixes=("_x", "_y")): a column name that both frames have gets
\* the suffix of its side.
Suffixed(cols, others, suffix) ==
    [j \in 1..Len(cols) |-> IF cols[j] \in Range(others) THEN cols[j] \o suffix ELSE cols[j]]

\* left.merge(right, left_on=on, right_index=True, how="left"): every left
\* row, in order, once per right row it matches, and once with missing
\* values when it matches none; the left index labels are kept.
MergeLeft(left, right, on) ==
    LET keys == Col(left, on)
        unmatched == \E k \in 1..NRows(left) : Matches(right, keys[k]) = <<>>
        nright == Len(right.columns)
        \* per left row, the out rows as <<left position, right position or 0>>
        pairs == Flatten([k \in 1..NRows(left) |->
                    IF Matches(right, keys[k]) = <<>> THEN << <<k, 0>> >>
                    ELSE [j \in 1..Len(Matches(right, keys[k])) |-> <<k, Matches(right, keys[k])[j]>>]])
        cell(r, j) == IF ~unmatched THEN right.data[r][j]
                      ELSE IF r = 0 THEN <<>> ELSE <<right.data[r][j]>>
    IN  MkDf(Suffixed(left.columns, right.columns, "_x") \o Suffixed(right.columns, left.columns, "_y"),
             left.dtypes \o [j \in 1..nright |-> IF unmatched THEN Upcast(right.dtypes[j]) ELSE right.dtypes[j]],
             [n \in 1..Len(pairs) |-> left.index[pairs[n][1]]],
             [n \in 1..Len(pairs) |-> left.data[pairs[n][1]] \o [j \in 1..nright |-> cell(pairs[n][2], j)]])

\* start, lines 131-134: the join, then the index as a column
EqtlMerge ==
    /\ script = "eqtl" /\ pc = "preprocessed"
    /\ IF HasCol(eqtl_df, "SNPName")
       THEN /\ top_eqtl_df' = LET merged == MergeLeft(eqtl_df, snps_df, "SNPName")
                              IN  SetCol(merged, "index", "int64", merged.index)
            /\ pc' = "merged" /\ err' = err
       ELSE Raise("KeyError") /\ UNCHANGED top_eqtl_df
    /\ UNCHANGED <<env, dirs, files, log, outdir, notEqtl, eqtl_df, snps_df>>

\* start, line 137
EqtlSave ==
    /\ script = "eqtl" /\ pc = "merged"
    /\ SaveFile(top_eqtl_df, "BIOS_eQTLProbesFDR0.05-ProbeLevel.txt.gz", TRUE, FALSE, "done")
    /\ UNCHANGED <<env, dirs, outdir, notEqtl, eqtlMem>>

(***************************************************************************)
(* overview_lineplot.py                                                    *)
(***************************************************************************)
\* main.__init__, lines 72-90: the palette, in the order of its keys
PaletteKeys == <<"Neuron", "Oligodendrocyte", "EndothelialCell", "Macrophage", "Astrocyte", "PCT_INTRONIC_BASES",
                 "comp0", "comp1", "comp2", "comp3", "comp4",
                 "PIC1", "PIC2", "PIC3", "PIC4", "PIC5", "PIC6">>

PaletteColor(key) ==
    CASE key \in {"Neuron", "comp0", "PIC1"}          -> "#0072B2"
      [] key \in {"Oligodendrocyte", "comp1", "PIC2"} -> "#009E73"
      [] key \in {"EndothelialCell", "comp2", "PIC3"} -> "#CC79A7"
      [] key \in {"Macrophage", "comp3", "PIC4"}      -> "#E69F00"
      [] key \in {"Astrocyte", "comp4", "PIC5"}       -> "#D55E00"
      [] key = "PCT_INTRONIC_BASES"                   -> "#000000"
      [] key = "PIC6"                                 -> "#56B4E9"

\* main.__init__: parse the command line, set and create self.outdir.
PlotInit ==
    /\ script = "plot" /\ pc = "start"
    /\ IF ~args.valid
       THEN /\ pc' = "usage" /\ err' = "SystemExit"
            /\ UNCHANGED <<outdir, dirs, log>>
       ELSE /\ outdir' = PlotOutdir
            /\ dirs' = IF Resolve(outdir') \in dirs THEN dirs ELSE MakeDirs(dirs, outdir')
            /\ log' = Append(log, <<"makedirs", "outdir">>)
            /\ pc' = "loop" /\ err' = err
    /\ UNCHANGED <<env, files, notPlot, plotMem>>

\* os.path.exists(os.path.join(input_directory, "PIC{i}", "info_df.txt.gz"))
Exists(n) == inputs[PIC(n)].kind # "missing"

\* df.loc["iteration0", "covariate"]
Iteration0Covariate(df) == Col(df, "covariate")[IndexOf(df.index, "iteration0")]

\* start, lines 125-126: df["index"] = np.arange(1, n + 1); df["component"] = "PIC{i}"
Tagged(df, n) ==
    SetCol(SetCol(df, "index", "int64", [k \in 1..NRows(df) |-> k]),
           "component", "str", [k \in 1..NRows(df) |-> PIC(n)])

\* df.melt(id_vars): one row per value column and row, column by column.
Melt(df, id_vars) ==
    LET value_vars == SelectSeq(df.columns, LAMBDA c : c \notin Range(id_vars))
        ids == SelectCols(df, id_vars)
        n == NRows(df)
    IN  MkDf(id_vars \o <<"variable", "value">>, ids.dtypes \o <<"str", "int64">>,
             RangeIndex(n * Len(value_vars)),
             [r \in 1..(n * Len(value_vars)) |->
                ids.data[((r - 1) % n) + 1]
                \o <<value_vars[((r - 1) \div n) + 1],
                     df.data[((r - 1) % n) + 1][ColPos(df, value_vars[((r - 1) \div n) + 1])]>>])

\* start, lines 118-128, one turn of the loop for a component whose file exists
PlotLoadComponent ==
    /\ script = "plot" /\ pc = "loop" /\ i <= NumComponents
    /\ Exists(i)
    /\ log' = Append(log, <<"load", PIC(i)>>)
    /\ IF LoadError(PIC(i)) # ""
       THEN Raise(LoadError(PIC(i))) /\ UNCHANGED <<i, info_dict, df_m_list>>
       ELSE LET df == FirstColAsIndex(LoadFile(PIC(i)))
            IN  IF HasCol(df, "covariate") /\ "iteration0" \in Range(df.index)
                THEN /\ info_dict' = (PIC(i) :> Iteration0Covariate(df)) @@ info_dict
                     /\ df_m_list' = Append(df_m_list, Melt(Tagged(df, i), <<"index", "covariate", "component">>))
                     /\ i' = i + 1
                     /\ UNCHANGED <<pc, err>>
                ELSE Raise("KeyError") /\ UNCHANGED <<i, info_dict, df_m_list>>
    /\ UNCHANGED <<env, dirs, files, outdir, notPlot, df_m, plotted>>

\* start, lines 118-120, one turn of the loop for a component with no file
PlotSkipComponent ==
    /\ script = "plot" /\ pc = "loop" /\ i <= NumComponents
    /\ ~Exists(i)
    /\ i' = i + 1
    /\ UNCHANGED <<env, pc, err, dirs, files, log, outdir, notPlot, info_dict, df_m_list, df_m, plotted>>

\* pd.concat(frames, axis=0)
Concat(frames) ==
    MkDf(frames[1].columns, frames[1].dtypes,
         Flatten([k \in 1..Len(frames) |-> frames[k].index]),
         Flatten([k \in 1..Len(frames) |-> frames[k].data]))

\* np.log10 on the values the tables hold; no logarithm of 0 or less
Log10(v) == CASE v = 1 -> <<0>> [] v = 10 -> <<1>> [] v = 100 -> <<2>> [] v <= 0 -> <<>> [] OTHER -> <<v>>

\* start, lines 130-132: concat raises on an empty list
PlotMerge ==
    /\ script = "plot" /\ pc = "loop" /\ i > NumComponents
    /\ IF df_m_list = <<>>
       THEN Raise("ValueError") /\ UNCHANGED df_m
       ELSE /\ df_m' = LET all == Concat(df_m_list)
                       IN  SetCol(all, "log10 value", "float64", [k \in 1..NRows(all) |-> Log10(Col(all, "value")[k])])
            /\ pc' = "plotting" /\ err' = err
    /\ UNCHANGED <<env, dirs, files, log, outdir, notPlot, i, info_dict, df_m_list, plotted>>

\* s.unique(): the values in the order of their first appearance
RECURSIVE Unique(_)
Unique(s) ==
    IF s = <<>> THEN <<>>
    ELSE LET front == Unique(SubSeq(s, 1, Len(s) - 1))
         IN  IF s[Len(s)] \in Range(front) THEN front ELSE Append(front, s[Len(s)])

Variables(df) == Unique(Col(df, "variable"))

\* The rows of a variable with no row left out.
SubsetOfAllRows(df, variable) ==
    SelectRows(df, [k \in 1..NRows(df) |-> Col(df, "variable")[k] = variable])

\* start, lines 138-140: the rows handed to the plots of a variable
SubsetOf(df, variable) ==
    LET subset_m == SelectRows(df, [k \in 1..NRows(df) |-> Col(df, "variable")[k] = variable])
    IN  IF variable = "Overlap %"
        THEN SelectRows(subset_m, [k \in 1..NRows(subset_m) |-> Col(subset_m, "index")[k] # 1])
        ELSE subset_m

\* variable.replace(" ", "_").lower() + ".png", as a path
FileName(variable) ==
    CASE variable = "Overlap %"      -> <<"overlap_%.png">>
      [] variable = "Log Likelihood" -> <<"log_likelihood.png">>
      [] variable = "/tmp/N"         -> <<"/", "tmp", "n.png">>
      [] variable = "likelihood"     -> <<"likelihood.png">>
      [] variable = "Likelihoods"    -> <<"likelihoods.png">>

Log10FileName(variable) ==
    CASE variable = "Overlap %"      -> <<"log10_overlap_%.png">>
      [] variable = "Log Likelihood" -> <<"log10_log_likelihood.png">>
      [] variable = "/tmp/N"         -> <<"log10_", "tmp", "n.png">>
      [] variable = "likelihood"     -> <<"log10_likelihood.png">>
      [] variable = "Likelihoods"    -> <<"log10_likelihoods.png">>

\* "Likelihood" in variable: a substring test that tells upper from lower case
IsLikelihood(variable) == variable \in {"Log Likelihood", "Likelihoods"}

\* sns.lineplot(units=hue, hue=hue, palette=palette): a dict palette must
\* have a colour for every hue level of the data.
PaletteCovers(df) == \A c \in Range(Col(df, "component")) : c \in Range(PaletteKeys)

\* lineplot, lines 198-206: the legend, one entry per palette key in the data
Legend(df, info) ==
    LET keys == SelectSeq(PaletteKeys, LAMBDA key : key \in Range(Col(df, "component")))
    IN  [k \in 1..Len(keys) |->
            <<PaletteColor(keys[k]),
              IF keys[k] \in DOMAIN info THEN keys[k] \o " [" \o info[keys[k]] \o "]" ELSE keys[k]>>]

\* lineplot, lines 172-207: the figure; one line per component, in its colour
Figure(df, x, y, xlabel, ylabel, info) ==
    LET comps == Unique(Col(df, "component"))
    IN  [xlabel |-> xlabel, ylabel |-> ylabel,
         lines |-> [k \in 1..Len(comps) |->
                      LET rows == SelectRows(df, [r \in 1..NRows(df) |-> Col(df, "component")[r] = comps[k]])
                      IN  [component |-> comps[k], color |-> PaletteColor(comps[k]),
                           x |-> Col(rows, x), y |-> Col(rows, y)]],
         legend |-> Legend(df, info)]

\* lineplot: draw and fig.savefig(os.path.join(outdir, filename + ".png"))
LinePlot(df, y, xlabel, ylabel, filename, next) ==
    IF ~PaletteCovers(df)
    THEN Raise("ValueError") /\ UNCHANGED <<files, log>>
    ELSE \E outcome \in SaveOutcomes(Join(outdir, filename)) :
            /\ files' = Written(files, Join(outdir, filename),
                                PlainBytes(<<Figure(df, "index", y, xlabel, ylabel, info_dict)>>), outcome)
            /\ log' = Append(log, <<"save", filename[Len(filename)]>>)
            /\ IF outcome = "ok" THEN pc' = next /\ err' = err ELSE Raise("OSError")

CurrentVariable == Variables(df_m)[plotted + 1]

\* start, lines 135-147: the plot of the next variable
PlotVariable ==
    /\ script = "plot" /\ pc = "plotting" /\ plotted < Len(Variables(df_m))
    /\ LinePlot(SubsetOf(df_m, CurrentVariable), "value", "iteration", CurrentVariable,
                FileName(CurrentVariable), IF IsLikelihood(CurrentVariable) THEN "plotting_log10" ELSE "plotting")
    /\ plotted' = IF IsLikelihood(CurrentVariable) \/ pc' = "failed" THEN plotted ELSE plotted + 1
    /\ UNCHANGED <<env, dirs, outdir, notPlot, i, info_dict, df_m_list, df_m>>

\* start, lines 149-155: the log10 plot of a likelihood variable
PlotLog10 ==
    /\ script = "plot" /\ pc = "plotting_log10"
    /\ LinePlot(SubsetOf(df_m, CurrentVariable), "log10 value", "iteration", "log10 " \o CurrentVariable,
                Log10FileName(CurrentVariable), "plotting")
    /\ plotted' = IF pc' = "failed" THEN plotted ELSE plotted + 1
    /\ UNCHANGED <<env, dirs, outdir, notPlot, i, info_dict, df_m_list, df_m>>

\* start returns after the last variable
PlotDone ==
    /\ script = "plot" /\ pc = "plotting" /\ plotted = Len(Variables(df_m))
    /\ pc' = "done"
    /\ UNCHANGED <<env, err, dirs, files, log, outdir, notPlot, plotMem>>

(***************************************************************************)
(* visualiser.py                                                           *)
(***************************************************************************)
\* plot, lines 41-44: the output directory
VisInit ==
    /\ script = "vis" /\ pc = "start"
    /\ outdir' = VisOutdir(args.out_path)
    /\ dirs' = IF Resolve(outdir') \in dirs THEN dirs ELSE MakeDirs(dirs, outdir')
    /\ log' = Append(log, <<"makedirs", "outdir">>)
    /\ pc' = "init"
    /\ UNCHANGED <<env, err, files, notVis, visMem>>

\* np.copy(a): a new array with the values of a
Copy(a) == a

\* ocf[ieqtl.mask]: the values at the positions where the mask is True
Masked(values, mask) == [k \in 1..Len(KeptPositions(mask, 1)) |-> values[KeptPositions(mask, 1)[k]]]

\* plot, lines 66-68: the covariate column set, then the interaction
\* recomputed from the genotype and the new covariate
XOptStaleInteraction(X, covariate) ==
    [k \in 1..Len(X) |-> <<X[k][1], X[k][2], covariate[k], X[k][4]>>]

XOpt(X, covariate) ==
    [k \in 1..Len(X) |-> <<X[k][1], X[k][2], covariate[k], Times(X[k][2], covariate[k])>>]

\* plot, lines 51-52 and 73-74
RSquaredAlways(X, yv, solo) == <<Squared(calc_pearsonr(yv, fit_and_predict(X, yv)))>>

RSquared(X, yv) == Squared(calc_pearsonr(yv, fit_and_predict(X, yv)))

RSquaredOpt(X, yv, solo) == IF solo THEN <<>> ELSE <<RSquared(X, yv)>>

\* plot, lines 46-74: the copies and the baseline fit, then the optimized
\* covariate from the given array or from the vertex of the quadratic.  An
\* array that has not the length of the mask cannot be indexed by it.
VisCompute ==
    /\ script = "vis" /\ pc = "init"
    /\ X_start' = Copy(ieqtl.X)
    /\ y_vec' = Copy(ieqtl.y)
    /\ r_squared_start' = <<RSquared(X_start', y_vec')>>
    /\ solo_optimized' = ~args.ocf.given
    /\ p2_ci' = IF args.ocf.given THEN "95" ELSE NoneValue
    /\ IF args.ocf.given /\ Len(args.ocf.values) # Len(ieqtl.mask)
       THEN Raise("IndexError") /\ UNCHANGED <<ocf, X_opt, r_squared_opt>>
       ELSE /\ ocf' = IF args.ocf.given THEN Masked(args.ocf.values, ieqtl.mask)
                      ELSE calc_vertex_xpos(ieqtl.coef_a, ieqtl.coef_b)
            /\ X_opt' = XOpt(Copy(X_start'), ocf')
            /\ r_squared_opt' = RSquaredOpt(X_opt', y_vec', solo_optimized')
            /\ pc' = "computed" /\ err' = err
    /\ UNCHANGED <<env, dirs, files, log, outdir, notVis, ieqtl>>

\* plot, lines 77-81: the frame of a panel, with the rounded genotype
PlotFrame(X, yv) ==
    [k \in 1..Len(X) |-> [genotype |-> X[k][2], covariate |-> X[k][3],
                          expression |-> yv[k], group |-> Round0(X[k][2])]]

\* inter_plot, lines 144-146
colors(group_id) ==
    CASE group_id = Whole(0) -> "#E69F00" [] group_id = Whole(1) -> "#0072B2" [] group_id = Whole(2) -> "#D55E00"

EmptyPanel == [drawn |-> FALSE, groups |-> <<>>, rsquared |-> <<>>, fdr |-> <<>>, title |-> "", xlabel |-> "", ylabel |-> ""]

\* inter_plot, lines 151-181: the annotation of a group, and its regression
\* when the group has more than one sample
GroupAnnotation(df, group_id, ci) ==
    LET subset == SelectSeq(df, LAMBDA row : row.group = group_id)
        regress == Len(subset) > 1
    IN  [group |-> group_id, n |-> Len(subset), color |-> colors(group_id),
         coef_str |-> IF regress
                      THEN [text |-> "{:.2f}",
                            coef |-> <<spearmanr([k \in 1..Len(subset) |-> subset[k].expression],
                                                 [k \in 1..Len(subset) |-> subset[k].covariate])>>]
                      ELSE [text |-> "NA", coef |-> <<>>],
         regplot |-> IF regress THEN <<ci>> ELSE <<>>]

\* A panel drawn whatever the groups of its data.
inter_plot_any_groups(df, ci, fdr, xlabel, ylabel, rsquared, title) ==
    [drawn |-> TRUE, groups |-> <<>>, rsquared |-> rsquared,
     fdr |-> IF fdr = NoneValue THEN <<>> ELSE <<fdr>>,
     title |-> title, xlabel |-> xlabel, ylabel |-> ylabel]

\* inter_plot, lines 138-209: nothing is drawn unless the rounded genotypes
\* are exactly 0, 1 and 2
inter_plot(df, ci, fdr, xlabel, ylabel, rsquared, title) ==
    LET unique_groups == Unique([k \in 1..Len(df) |-> df[k].group])
    IN  IF Range(unique_groups) # {Whole(0), Whole(1), Whole(2)}
        THEN EmptyPanel
        ELSE [drawn |-> TRUE,
              groups |-> [k \in 1..Len(unique_groups) |-> GroupAnnotation(df, unique_groups[k], ci)],
              rsquared |-> rsquared,
              fdr |-> IF fdr = NoneValue THEN <<>> ELSE <<fdr>>,
              title |-> title, xlabel |-> xlabel, ylabel |-> ylabel]

\* create_interaction_figure, lines 114-118 and 134
P2Title(solo) == IF solo THEN "optimized [solo]" ELSE "optimized"

FigureName(ieqtl_id, iteration, solo) ==
    ieqtl_id \o "-" \o ToString(iteration) \o (IF solo THEN "_soloOptimized" ELSE "") \o ".png"

\* create_interaction_figure, lines 96-132: the two panels and the title
InteractionFigure(df1, df2, rs1, rs2, fdr1, ci2, title, solo) ==
    [ax1 |-> inter_plot(df1, "95", fdr1, "normalised cell fraction", "gene expression", rs1, "start"),
     ax2 |-> inter_plot(df2, ci2, NoneValue, "optimized cell fraction", "", rs2, P2Title(solo)),
     suptitle |-> title]

\* plot, lines 76-92, and create_interaction_figure: draw and save
VisSave ==
    /\ script = "vis" /\ pc = "computed"
    /\ LET name == FigureName(ieqtl.id, args.iteration, solo_optimized)
           fig == InteractionFigure(PlotFrame(X_start, y_vec), PlotFrame(X_opt, y_vec),
                                    r_squared_start, r_squared_opt, args.fdr, p2_ci,
                                    ieqtl.id \o ":" \o ToString(args.iteration), solo_optimized)
       IN  \E outcome \in SaveOutcomes(Join(outdir, <<name>>)) :
              /\ files' = Written(files, Join(outdir, <<name>>), PlainBytes(<<fig>>), outcome)
              /\ log' = Append(log, <<"save", name>>)
              /\ IF outcome = "ok" THEN pc' = "done" /\ err' = err ELSE Raise("OSError")
    /\ UNCHANGED <<env, dirs, outdir, notVis, visMem>>

(***************************************************************************)
(* The same command line is run a second time, at once or a second later.  *)
(***************************************************************************)
Rerun ==
    /\ script \in {"gte", "eqtl"}
    /\ run = "first" /\ pc \in {"done", "failed", "usage"}
    /\ run' = "second"
    /\ clock' \in {clock, clock + 1}
    /\ files0' = files
    /\ pc0' = pc
    /\ pc' = "start" /\ err' = "" /\ log' = <<>> /\ outdir' = <<>>
    /\ gte_df' = EmptyDf /\ se_df' = EmptyDf /\ subset_gte_df' = EmptyDf
    /\ eqtl_df' = EmptyDf /\ snps_df' = EmptyDf /\ top_eqtl_df' = EmptyDf
    /\ UNCHANGED <<script, args, inputs, dirs, files, plotMem, visMem>>

Next ==
    \/ GteInit \/ GteLoadGte \/ GteLoadSe \/ GteRemove
    \/ GteSaveGte \/ GteSaveStd \/ GteSaveFid
    \/ EqtlInit \/ EqtlLoadEqtl \/ EqtlLoadSnps \/ EqtlPreprocess \/ EqtlMerge \/ EqtlSave
    \/ PlotInit \/ PlotLoadComponent \/ PlotSkipComponent \/ PlotMerge
    \/ PlotVariable \/ PlotLog10 \/ PlotDone
    \/ VisInit \/ VisCompute \/ VisSave
    \/ Rerun

Spec == Init /\ [][Next]_vars

(***************************************************************************)
(* Properties.                                                             *)
(***************************************************************************)
\* The save of `name` has been done by this run and did not fail.
Saved(name) ==
    \E n \in 1..Len(log) : log[n] = <<"save", name>> /\ ~(n = Len(log) /\ pc = "failed" /\ err = "OSError")

\* The file `name` of the output directory.
Output(name) == files[Resolve(Join(outdir, <<name>>))]

\* The GTE table and the exclusion table as they are on disk.
GteInput == inputs["BIOS_GTE.txt.gz"].df

ExclInput == inputs["exclude.txt.gz"].df

ExcludedIds == {ExclInput.data[m][ColPos(ExclInput, "rnaseq_id")] : m \in 1..NRows(ExclInput)}

\* C1: in the GTE filter script, a row of the loaded genotype-to-expression
\* table is a line of the written GenotypeToExpression output if and only
\* if its rnaseq_id is not one of the rnaseq_id values of the exclusion
\* table.
C1_FilterIff ==
    (script = "gte" /\ Saved("GenotypeToExpression.txt.gz")) =>
        LET out == Output("GenotypeToExpression.txt.gz").payload
        IN  \A k \in 1..NRows(GteInput) :
                (\E j \in 2..Len(out) : out[j] = GteInput.data[k])
                <=> GteInput.data[k][ColPos(GteInput, "rnaseq_id")] \notin ExcludedIds

C1_Witness ==
    /\ script = "gte" /\ pc = "done"
    /\ \E k \in 1..NRows(GteInput) : GteInput.data[k][2] \in ExcludedIds
    /\ \E k \in 1..NRows(GteInput) : GteInput.data[k][2] \notin ExcludedIds
    /\ Len(Output("GenotypeToExpression.txt.gz").payload) = 2

\* The rows of the GTE table that are not excluded, in the table's order.
FilteredRows == SelectSeq(GteInput.data, LAMBDA r : r[ColPos(GteInput, "rnaseq_id")] \notin ExcludedIds)

\* C8: the GTE filter script writes three outputs that describe the
\* filtered rows in the same order: the filtered GTE with the original
\* columns, the sample-to-dataset map with the (rnaseq_id, dataset) pairs
\* under the header (sample, dataset), and the header-less
\* family-to-genotype map with the rows (0, genotype_id).
C8_ThreeOutputs ==
    (script = "gte" /\ pc = "done") =>
        LET gte == Output("GenotypeToExpression.txt.gz").payload
            std == Output("SampleToDataset.txt.gz").payload
            fid == Output("FamilyToGenotype.txt").payload
            n == Len(FilteredRows)
        IN  /\ gte = <<GteInput.columns>> \o FilteredRows
            /\ Len(std) = n + 1 /\ std[1] = <<"sample", "dataset">>
            /\ \A k \in 1..n : std[k + 1] = <<FilteredRows[k][ColPos(GteInput, "rnaseq_id")],
                                              FilteredRows[k][ColPos(GteInput, "dataset")]>>
            /\ Len(fid) = n
            /\ \A k \in 1..n : fid[k] = <<"0", FilteredRows[k][ColPos(GteInput, "genotype_id")]>>

C8_Witness ==
    /\ script = "gte" /\ pc = "done"
    /\ NRows(GteInput) = 2 /\ Len(FilteredRows) = 1
    /\ Len(Output("FamilyToGenotype.txt").payload) = 1

\* The SNP x dataset matrix as it is on disk, and its column of identifiers.
SnpInput == inputs["SNP_dataset_matrix.txt.gz"].df

EqtlInput == inputs["eqtl.txt.gz"].df

SnpInputIds == {SnpInput.data[m][1] : m \in 1..NRows(SnpInput)}

\* The value of a cell of the joined frame, <<>> when it is null.
Cell(df, n, c) ==
    IF df.dtypes[ColPos(df, c)] \in {"float64", "boolna"} THEN df.data[n][ColPos(df, c)]
    ELSE <<df.data[n][ColPos(df, c)]>>

Joined == script = "eqtl" /\ pc \in {"merged", "done"}

\* C2: in the eQTL preparation script every row of the joined output
\* carries the 'N datasets' and 'N samples' of a SNP row whose identifier
\* is its SNPName when there is one, and null in both columns when there
\* is none; no eQTL row is dropped for lacking a match.
C2_LeftJoin ==
    Joined =>
        /\ \A n \in 1..NRows(top_eqtl_df) :
              LET key == top_eqtl_df.data[n][ColPos(top_eqtl_df, "SNPName")]
              IN  IF key \in SnpInputIds
                  THEN \E m \in 1..NRows(snps_df) :
                          /\ snps_df.index[m] = key
                          /\ Cell(top_eqtl_df, n, "N datasets") = Cell(snps_df, m, "N datasets")
                          /\ Cell(top_eqtl_df, n, "N samples") = Cell(snps_df, m, "N samples")
                  ELSE /\ Cell(top_eqtl_df, n, "N datasets") = <<>>
                       /\ Cell(top_eqtl_df, n, "N samples") = <<>>
        /\ \A k \in 1..NRows(EqtlInput) :
              \E n \in 1..NRows(top_eqtl_df) :
                 /\ top_eqtl_df.index[n] = k - 1
                 /\ top_eqtl_df.data[n][ColPos(top_eqtl_df, "SNPName")]
                       = EqtlInput.data[k][ColPos(eqtl_df, "SNPName")]

C2_Witness ==
    /\ Joined /\ NRows(top_eqtl_df) = 2
    /\ Cell(top_eqtl_df, 1, "N samples") = <<>>
    /\ Cell(top_eqtl_df, 2, "N samples") = <<902>>

\* The size of a cohort, and the sum of the sizes of a set of cohorts.
SizeOf(c) == dataset_sizes[IndexOf(dataset_order, c)]

RECURSIVE TotalSize(_)
TotalSize(cs) == IF cs = {} THEN 0 ELSE LET c == CHOOSE x \in cs : TRUE IN SizeOf(c) + TotalSize(cs \ {c})

\* The columns of the matrix on disk in which the m-th SNP is present.
PresentIn(m) == {SnpInput.columns[j] : j \in {q \in 2..Len(SnpInput.columns) : SnpInput.data[m][q]}}

Counted == script = "eqtl" /\ HasCol(snps_df, "N datasets")

Sized == script = "eqtl" /\ HasCol(snps_df, "N samples")

\* C3: in the eQTL preparation script the 'N samples' of a SNP is the sum
\* of the sizes (765, 733, 400, 341, 255, 184, 169, 138, 74) of the cohorts
\* (RS, LL, LLS_660Q, NTR_AFFY, LLS_OmniExpr, CODAM, PAN, NTR_GONL, GONL) in
\* which it is present, whatever the column order of the matrix and
\* whatever the 'N datasets' column holds.
C3_SampleCount ==
    Sized =>
        \A m \in 1..NRows(snps_df) :
            Cell(snps_df, m, "N samples") = <<TotalSize(PresentIn(m) \cap Range(dataset_order))>>

C3_Witness ==
    /\ Sized /\ NRows(snps_df) = 2
    /\ snps_df.columns[1] = "GONL"
    /\ Cell(snps_df, 1, "N samples") = <<765 + 400 + 74>>
    /\ Cell(snps_df, 2, "N samples") = <<733 + 169>>

\* C9 as claimed: the 'N datasets' of a SNP is the number of cohorts of the
\* fixed dataset order in which the SNP is present.
C9_Original ==
    Counted =>
        \A m \in 1..NRows(snps_df) :
            Cell(snps_df, m, "N datasets") = <<Cardinality(PresentIn(m) \cap Range(dataset_order))>>

\* C9: the 'N datasets' of a SNP is the number of columns of the loaded
\* matrix in which the SNP is present, whether or not the fixed dataset
\* order names the column; it is the number of cohorts of the dataset
\* order in which the SNP is present when the matrix has no other column.
C9_DatasetCount ==
    Counted =>
        \A m \in 1..NRows(snps_df) :
            /\ Cell(snps_df, m, "N datasets") = <<Cardinality(PresentIn(m))>>
            /\ Range(Tail(SnpInput.columns)) \subseteq Range(dataset_order)
               => Cell(snps_df, m, "N datasets") = <<Cardinality(PresentIn(m) \cap Range(dataset_order))>>

C9_Witness ==
    /\ Counted /\ NRows(snps_df) = 2
    /\ HasCol(snps_df, "EXTRA")
    /\ Cell(snps_df, 1, "N datasets") = <<4>>
    /\ Cell(snps_df, 2, "N datasets") = <<2>>

Tabular == script \in {"gte", "eqtl"}

BothRunsDone == Tabular /\ run = "second" /\ pc = "done" /\ pc0 = "done"

\* C4 as claimed: a second run on the same inputs and output directory
\* leaves every output file with exactly the bytes the first run wrote,
\* the gzip-compressed ones included.
C4_Original == BothRunsDone => files = files0

\* C4: a second run on the same inputs and output directory rewrites the
\* same files with the same tabular content: the uncompressed output is
\* byte-identical, a gzip-compressed output decompresses to the same
\* bytes, and its compressed bytes are the same when both runs wrote it
\* in the same second (the gzip header holds the time of writing).
C4_SameContent ==
    BothRunsDone =>
        /\ DOMAIN files = DOMAIN files0
        /\ \A p \in DOMAIN files :
              /\ files[p].payload = files0[p].payload
              /\ files[p].gz = files0[p].gz
              /\ (~files[p].gz \/ files[p].mtime = files0[p].mtime) => files[p] = files0[p]

C4_Witness ==
    /\ BothRunsDone /\ script = "gte" /\ clock = 1
    /\ Cardinality(DOMAIN files) = 3
    /\ \E p \in DOMAIN files : files[p].gz /\ files[p].mtime # files0[p].mtime /\ Len(files[p].payload) = 3
    /\ \E p \in DOMAIN files : ~files[p].gz /\ files[p] = files0[p] /\ Len(files[p].payload) = 2

\* The sibling directory of each script's directory that the script names.
FixedDir ==
    CASE script = "gte"  -> <<"/", "PICA", "dev", "BIOS", "filter_gte_file">>
      [] script = "eqtl" -> <<"/", "PICA", "dev", "BIOS", "prepare_bios_eqtl_file_test">>
      [] script = "plot" -> <<"/", "PICA", "dev", "plot">>
      [] script = "vis"  -> Parent(Parent(VisFile))

PlainRelative(p) == ~IsAbs(p) /\ ".." \notin Range(p)

PastParsing == pc \notin {"start", "usage"}

ExpectedLoadError(n) ==
    IF n = NoneValue THEN "AttributeError"
    ELSE IF inputs[n].kind = "missing" THEN "FileNotFoundError"
    ELSE IF inputs[n].kind = "malformed" THEN "ParserError"
    ELSE ""

\* C7: in the GTE filter script and the eQTL preparation script the load
\* of a missing or malformed input ends the run with that load's own
\* failure, nothing is loaded twice, every load precedes every save, so
\* such a run writes no output file; and a save that fails leaves the
\* files of the earlier saves as they were.
C7_LoadFailure ==
    /\ [](Tabular =>
            /\ \A n \in 1..Len(log) :
                  (log[n][1] = "load" /\ ExpectedLoadError(log[n][2]) # "") =>
                      /\ n = Len(log) /\ pc = "failed" /\ err = ExpectedLoadError(log[n][2])
                      /\ files = files0
            /\ \A a, b \in 1..Len(log) :
                  /\ (a < b /\ log[a][1] = "save") => log[b][1] # "load"
                  /\ (a # b /\ log[a][1] = "load") => log[a] # log[b])
    /\ [][(Tabular /\ Len(log') = Len(log) + 1 /\ pc' = "failed" /\ err' = "OSError") =>
             \A p \in DOMAIN files :
                 p # Resolve(Join(outdir, <<log'[Len(log')][2]>>)) => (p \in DOMAIN files' /\ files'[p] = files[p])]_vars

C7_Witness ==
    /\ script = "eqtl" /\ pc = "failed" /\ err = "ParserError" /\ run = "first"
    /\ Len(log) = 3 /\ log[3] = <<"load", "SNP_dataset_matrix.txt.gz">>
    /\ files = NoFiles

C7_SaveWitness ==
    /\ script = "gte" /\ pc = "failed" /\ err = "OSError" /\ run = "first"
    /\ Len(log) = 5 /\ Cardinality(DOMAIN files) = 2

\* The number of rows of the info_df of a component.
InfoRowsOf(c) == NRows(inputs[c].df)

Loads == SelectSeq(log, LAMBDA e : e[1] = "load")

\* C10 as claimed: the overview line-plot script takes PIC1..PIC10 in
\* ascending order, loads the info_df of a component if and only if the
\* file exists, tags the rows of each loaded table with the component and
\* the running index 1..n, and completes for every subset of present
\* components.
C10_Claim ==
    script = "plot" =>
        /\ \A n \in 1..NumComponents : n < i => (<<"load", PIC(n)>> \in Range(log) <=> Exists(n))
        /\ \A n \in 1..NumComponents : n >= i => <<"load", PIC(n)>> \notin Range(log) \/ pc = "failed"
        /\ Len(df_m_list) <= Len(Loads)
        /\ \A k \in 1..Len(df_m_list) :
              \A r \in 1..NRows(df_m_list[k]) :
                 /\ Cell(df_m_list[k], r, "component") = <<Loads[k][2]>>
                 /\ Cell(df_m_list[k], r, "index") = <<((r - 1) % InfoRowsOf(Loads[k][2])) + 1>>
        /\ ~(pc = "failed" /\ err # "OSError")

\* The same without the last conjunct: what the loop of start does.
C10_Loop ==
    script = "plot" =>
        /\ \A n \in 1..NumComponents : n < i => (<<"load", PIC(n)>> \in Range(log) <=> Exists(n))
        /\ \A k \in 1..Len(df_m_list) :
              \A r \in 1..NRows(df_m_list[k]) :
                 /\ Cell(df_m_list[k], r, "component") = <<Loads[k][2]>>
                 /\ Cell(df_m_list[k], r, "index") = <<((r - 1) % InfoRowsOf(Loads[k][2])) + 1>>

\* The figure written for a variable, and its log10 variant.
PlotOf(variable) == files[Resolve(Join(outdir, FileName(variable)))].payload[1]

Log10PlotOf(variable) == files[Resolve(Join(outdir, Log10FileName(variable)))].payload[1]

\* The variables whose plots this run has finished.
PlottedVariables == SubSeq(Variables(df_m), 1, plotted)

\* The components loaded by this run.
LoadedComponents == DOMAIN info_dict

Merged == script = "plot" /\ pc \in {"plotting", "plotting_log10", "done", "failed"} /\ df_m # EmptyDf

\* The figure has a line of its own for the component, in its palette
\* colour, and a legend entry "<component> [<iteration0 covariate>]".
DrawnWithLegend(fig, c) ==
    /\ c \in Range(PaletteKeys)
    /\ Cardinality({k \in 1..Len(fig.lines) : fig.lines[k].component = c}) = 1
    /\ \A k \in 1..Len(fig.lines) : fig.lines[k].component = c => fig.lines[k].color = PaletteColor(c)
    /\ <<PaletteColor(c), c \o " [" \o info_dict[c] \o "]">> \in Range(fig.legend)

\* C11 as claimed: in the overview line-plot script one line plot is drawn
\* for each measured variable, and in it every loaded component (any of
\* PIC1..PIC10) is a line of its own in a colour of the fixed palette with
\* a legend entry labelled with the component and its iteration0 covariate.
C11_Claim ==
    Merged =>
        /\ \A k \in 1..plotted :
              \A c \in LoadedComponents : DrawnWithLegend(PlotOf(PlottedVariables[k]), c)
        /\ ~(pc = "failed" /\ err = "ValueError")

\* What does hold: in a plot that is drawn, every component with a row
\* among the rows of the plot is a palette key, is one line in its palette
\* colour and has its labelled legend entry.
C11_Drawn ==
    Merged =>
        \A k \in 1..plotted :
           LET v == PlottedVariables[k]
           IN  \A c \in Range(Col(SubsetOf(df_m, v), "component")) : DrawnWithLegend(PlotOf(v), c)

C11_DrawnWitness ==
    /\ Merged /\ pc = "done" /\ plotted = 2
    /\ Cardinality(LoadedComponents) = 3

\* The rows of its info_df that a component contributes to the plot of a
\* variable: every iteration, the first one left out for "Overlap %".
FirstPlotted(variable) == IF variable = "Overlap %" THEN 2 ELSE 1

ExpectedX(c, variable) ==
    [k \in 1..(InfoRowsOf(c) + 1 - FirstPlotted(variable)) |-> k + FirstPlotted(variable) - 1]

ExpectedY(c, variable) ==
    [k \in 1..(InfoRowsOf(c) + 1 - FirstPlotted(variable)) |->
        inputs[c].df.data[k + FirstPlotted(variable) - 1][ColPos(inputs[c].df, variable)]]

\* The figure plots exactly the expected rows: one line per component that
\* has any, with these iterations, and no other line.
PlotsExpectedRows(fig, variable) ==
    /\ \A c \in LoadedComponents :
          IF ExpectedX(c, variable) = <<>>
          THEN \A k \in 1..Len(fig.lines) : fig.lines[k].component # c
          ELSE \E k \in 1..Len(fig.lines) :
                  fig.lines[k].component = c /\ fig.lines[k].x = ExpectedX(c, variable)
    /\ \A k \in 1..Len(fig.lines) : fig.lines[k].component \in LoadedComponents

NamesWithLikelihood == {"Log Likelihood", "Likelihoods"}

\* C12: in the overview line-plot script the rows of the plot of a variable
\* are exactly the long-form rows of that variable, without the rows of
\* running index 1 for the variable "Overlap %" and with every row for any
\* other variable; a second, log10-scaled plot of the same rows is written
\* if and only if the name of the variable contains "Likelihood".
C12_PlotRows ==
    Merged =>
        \A n \in 1..plotted :
           LET v == PlottedVariables[n]
           IN  /\ PlotsExpectedRows(PlotOf(v), v)
               /\ \A k \in 1..Len(PlotOf(v).lines) :
                     PlotOf(v).lines[k].y = ExpectedY(PlotOf(v).lines[k].component, v)
               /\ Resolve(Join(outdir, Log10FileName(v))) \in DOMAIN files <=> v \in NamesWithLikelihood
               /\ v \in NamesWithLikelihood =>
                     /\ PlotsExpectedRows(Log10PlotOf(v), v)
                     /\ Log10PlotOf(v).ylabel = "log10 " \o v

\* Both plots of a run are done, with a component of two iterations and
\* one of a single iteration; the log10 plot of the likelihood is there.
C12_Witness ==
    /\ Merged /\ pc = "done" /\ plotted = 2
    /\ PlottedVariables = <<"Overlap %", "Log Likelihood">>
    /\ \E c, d \in LoadedComponents : InfoRowsOf(c) = 2 /\ InfoRowsOf(d) = 1
    /\ Resolve(Join(outdir, <<"log10_log_likelihood.png">>)) \in DOMAIN files

\* The variable named in lower case gets no log10 plot, the other one does.
C12_CaseWitness ==
    /\ Merged /\ pc = "done"
    /\ PlottedVariables = <<"likelihood", "Likelihoods">>
    /\ DOMAIN files = {Resolve(Join(outdir, <<n>>)) : n \in {"likelihood.png", "likelihoods.png", "log10_likelihoods.png"}}

\* The figure written by Visualiser.plot.
VisFigure == files[Resolve(Join(outdir, <<FigureName(args.ieqtl.id, args.iteration, ~args.ocf.given)>>))].payload[1]

VisComputed == script = "vis" /\ pc \in {"computed", "done"}

VisSaved == script = "vis" /\ pc = "done"

\* The position in the given array of the k-th sample kept by the mask.
KeptSample(k) == k + Cardinality({j \in 1..Len(args.ieqtl.mask) : ~args.ieqtl.mask[j] /\ j <= k})

\* C13: in Visualiser.plot the optimized covariate is the given array at
\* the samples of the model's mask when an array is given, and the vertex
\* of the quadratic of the model's two coefficients when none is given.
\* The explained variance of the optimized fit is computed if and only if
\* an array was given; without one it stays unset, the second panel, when
\* drawn, is titled "optimized [solo]" and has no confidence interval, and
\* the file name ends in "_soloOptimized".  The baseline explained variance
\* is computed in both cases.
C13_OptimizedCovariate ==
    /\ (script = "vis" /\ pc \in {"computed", "done", "failed"}) =>
          r_squared_start = <<Squared(calc_pearsonr(args.ieqtl.y, fit_and_predict(args.ieqtl.X, args.ieqtl.y)))>>
    /\ VisComputed =>
          /\ Len(ocf) = Len(args.ieqtl.X)
          /\ args.ocf.given => \A k \in 1..Len(ocf) : ocf[k] = args.ocf.values[KeptSample(k)]
          /\ ~args.ocf.given => \A k \in 1..Len(ocf) : ocf[k] * args.ieqtl.coef_a[k] = 0 - args.ieqtl.coef_b[k]
          /\ r_squared_opt # <<>> <=> args.ocf.given
          /\ args.ocf.given => r_squared_opt = <<Squared(calc_pearsonr(y_vec, fit_and_predict(X_opt, y_vec)))>>
    /\ VisSaved =>
          /\ DOMAIN files =
                {Resolve(Join(outdir, <<args.ieqtl.id \o "-" \o ToString(args.iteration)
                                         \o (IF args.ocf.given THEN "" ELSE "_soloOptimized") \o ".png">>))}
          /\ VisFigure.ax2.drawn =>
                /\ VisFigure.ax2.title = (IF args.ocf.given THEN "optimized" ELSE "optimized [solo]")
                /\ VisFigure.ax2.rsquared = r_squared_opt
                /\ \A k \in 1..Len(VisFigure.ax2.groups) :
                      VisFigure.ax2.groups[k].regplot \in
                          {<<>>, <<IF args.ocf.given THEN "95" ELSE NoneValue>>}

\* No array given: the figure is saved with a drawn second panel that
\* holds a regression.
C13_Witness ==
    /\ VisSaved /\ ~args.ocf.given /\ VisFigure.ax2.drawn
    /\ \E k \in 1..Len(VisFigure.ax2.groups) : VisFigure.ax2.groups[k].regplot = <<NoneValue>>
    /\ r_squared_opt = <<>> /\ r_squared_start # <<>>

\* An array given, with the first sample left out by the mask.
C13_ArrayWitness ==
    /\ VisSaved /\ args.ocf.given /\ ~args.ieqtl.mask[1] /\ VisFigure.ax2.drawn
    /\ r_squared_opt # <<>>

\* C14: in Visualiser.plot the optimized design matrix has the intercept
\* and genotype columns of the model's design matrix, the optimized
\* covariate in the covariate column, and in every row an interaction equal
\* to the genotype of the row times its optimized covariate; the design
\* matrix and the response vector of the model object are not changed by
\* the call.
C14_OptimizedMatrix ==
    script = "vis" =>
        /\ ieqtl = args.ieqtl
        /\ VisComputed =>
              /\ Len(X_opt) = Len(args.ieqtl.X)
              /\ \A k \in 1..Len(X_opt) :
                    /\ X_opt[k][1] = args.ieqtl.X[k][1]
                    /\ X_opt[k][2] = args.ieqtl.X[k][2]
                    /\ X_opt[k][3] = ocf[k]
                    /\ 2 * X_opt[k][4] = X_opt[k][2] * ocf[k]
              /\ X_start = args.ieqtl.X /\ y_vec = args.ieqtl.y

\* The optimized matrix is there and its interaction differs from the
\* model's in some row, with a genotype that is not whole.
C14_Witness ==
    /\ VisComputed
    /\ \E k \in 1..Len(X_opt) : X_opt[k][4] # X_start[k][4] /\ X_opt[k][2] % 2 = 1
    /\ ieqtl.X = X_start

\* The rounded genotypes of the samples of the model, and the samples of a
\* rounded genotype.
RoundedGenotypes == {Round0(args.ieqtl.X[k][2]) : k \in 1..Len(args.ieqtl.X)}

SamplesOf(group_id) == {k \in 1..Len(args.ieqtl.X) : Round0(args.ieqtl.X[k][2]) = group_id}

AllThreeGroups == RoundedGenotypes = {0, 2, 4}

Blank(panel) ==
    /\ ~panel.drawn /\ panel.groups = <<>> /\ panel.rsquared = <<>> /\ panel.fdr = <<>>
    /\ panel.title = "" /\ panel.xlabel = "" /\ panel.ylabel = ""

\* Every group of the panel is annotated once; one with a single sample
\* gets "NA" and no regression, one with more gets both.
GroupsAnnotated(panel) ==
    /\ {panel.groups[k].group : k \in 1..Len(panel.groups)} = RoundedGenotypes
    /\ Len(panel.groups) = Cardinality(RoundedGenotypes)
    /\ \A k \in 1..Len(panel.groups) :
          LET a == panel.groups[k]
          IN  /\ a.n = Cardinality(SamplesOf(a.group))
              /\ a.n <= 1 => (a.coef_str.text = "NA" /\ a.regplot = <<>>)
              /\ a.n > 1 => (a.coef_str.text # "NA" /\ a.coef_str.coef # <<>> /\ a.regplot # <<>>)

\* C15: a panel of the visualiser is drawn (annotation of each group,
\* R-squared text, title, axis labels) only when the rounded genotypes of
\* its data are exactly 0, 1 and 2; with a group missing or another value
\* present nothing is drawn on the panel, and the figure is saved as a PNG
\* all the same.  In a drawn panel a group of at most one sample is
\* annotated "NA" and has no regression; the FDR text is on the start
\* panel only, and only when an FDR was passed.
C15_PanelGroups ==
    /\ (script = "vis" /\ pc = "failed" /\ err # "OSError") => (err = "IndexError" /\ X_opt = <<>>)
    /\ VisSaved =>
          /\ DOMAIN files = {Resolve(Join(outdir, <<FigureName(args.ieqtl.id, args.iteration, ~args.ocf.given)>>))}
          /\ VisFigure.ax1.drawn <=> AllThreeGroups
          /\ VisFigure.ax2.drawn <=> AllThreeGroups
          /\ ~AllThreeGroups => (Blank(VisFigure.ax1) /\ Blank(VisFigure.ax2))
          /\ AllThreeGroups =>
                /\ GroupsAnnotated(VisFigure.ax1) /\ GroupsAnnotated(VisFigure.ax2)
                /\ VisFigure.ax1.title = "start" /\ VisFigure.ax1.rsquared = r_squared_start
                /\ VisFigure.ax1.xlabel = "normalised cell fraction" /\ VisFigure.ax1.ylabel = "gene expression"
                /\ VisFigure.ax2.xlabel = "optimized cell fraction"
                /\ VisFigure.ax1.fdr = (IF args.fdr = NoneValue THEN <<>> ELSE <<args.fdr>>)
                /\ VisFigure.ax2.fdr = <<>>

\* A drawn figure with an FDR, a group of one sample and a group of two,
\* from genotypes that are not all whole.
C15_Witness ==
    /\ VisSaved /\ AllThreeGroups /\ args.fdr # NoneValue
    /\ \E k \in 1..Len(args.ieqtl.X) : args.ieqtl.X[k][2] % 2 = 1
    /\ \E g, h \in RoundedGenotypes : Cardinality(SamplesOf(g)) = 1 /\ Cardinality(SamplesOf(h)) > 1

\* A figure saved with nothing drawn: a genotype of 3 among the samples.
C15_BlankWitness ==
    /\ VisSaved /\ 6 \in RoundedGenotypes /\ Blank(VisFigure.ax1)

\* The identifiers of the presence matrix are unique.
UniqueSnpIds == Cardinality(SnpInputIds) = NRows(SnpInput)

\* The name an eQTL column is to have in the output.
ExpectedName(c) == IF c = "SNP" THEN "SNPName" ELSE IF c = "Gene" THEN "ProbeName" ELSE c

\* The written text of the joined frame: the header line, then the rows.
JoinedText == ToCsv(top_eqtl_df, TRUE, FALSE)

\* The output rows that stem from the k-th row of the eQTL table.
RowsFrom(k) == {n \in 1..NRows(top_eqtl_df) : top_eqtl_df.index[n] = k - 1}

\* The k-th eQTL row has a SNP with more than one row in the matrix.
MatchesDuplicate(k) ==
    Cardinality({m \in 1..NRows(SnpInput) :
                    SnpInput.data[m][1] = EqtlInput.data[k][ColPos(eqtl_df, "SNPName")]}) > 1

RowsKept ==
    /\ UniqueSnpIds =>
          /\ NRows(top_eqtl_df) = NRows(EqtlInput)
          /\ \A k \in 1..NRows(EqtlInput) : top_eqtl_df.index[k] = k - 1
    /\ \A k \in 1..NRows(EqtlInput) : MatchesDuplicate(k) => Cardinality(RowsFrom(k)) > 1

ColumnsKept ==
    LET text == JoinedText
    IN  /\ \A j \in 1..Len(EqtlInput.columns) : text[1][j] = ExpectedName(EqtlInput.columns[j])
        /\ \A n \in 1..NRows(top_eqtl_df) :
              \A j \in 1..Len(EqtlInput.columns) :
                 text[n + 1][j] = EqtlInput.data[top_eqtl_df.index[n] + 1][j]

\* No eQTL column has the name of a column the join or line 133 adds.
NoNameClash ==
    \A j \in 1..Len(EqtlInput.columns) :
       ExpectedName(EqtlInput.columns[j]) \notin Range(snps_df.columns) \cup {"index"}

\* C16 as claimed: in the eQTL preparation script, with unique SNP
\* identifiers in the presence matrix, the joined output has the rows of
\* the eQTL table, as many and in the same order, every eQTL column keeps
\* its values, and only "SNP" and "Gene" are renamed; with a duplicated
\* identifier a matching eQTL row appears more than once.
C16_Original == Joined => (RowsKept /\ (UniqueSnpIds => ColumnsKept))

\* The name under which an eQTL column is written: a name that a column
\* of the presence matrix (with its two counts) has too gets "_x".
WrittenName(c) ==
    IF ExpectedName(c) \in Range(snps_df.columns) THEN ExpectedName(c) \o "_x" ELSE ExpectedName(c)

\* The eQTL columns as they are written: a column whose written name is
\* "index" holds the row labels, every other one its values.
ColumnsWritten ==
    LET text == JoinedText
    IN  /\ \A j \in 1..Len(EqtlInput.columns) : text[1][j] = WrittenName(EqtlInput.columns[j])
        /\ \A n \in 1..NRows(top_eqtl_df) :
              \A j \in 1..Len(EqtlInput.columns) :
                 text[n + 1][j] = IF WrittenName(EqtlInput.columns[j]) = "index"
                                  THEN ToString(top_eqtl_df.index[n])
                                  ELSE EqtlInput.data[top_eqtl_df.index[n] + 1][j]

\* C16, amended: the rows are as claimed, whatever the columns.  The eQTL
\* columns keep their values and, but for "SNP" and "Gene", their names
\* when none of them is named "index" or like a column of the presence
\* matrix with its two counts; a column named like one of the latter is
\* written with the suffix "_x", and a column named "index" is overwritten
\* with the row labels.
C16_JoinRows == Joined => (RowsKept /\ ColumnsWritten /\ (NoNameClash => ColumnsKept))

\* Two eQTL rows joined to a matrix of two distinct SNPs.
C16_Witness ==
    /\ Joined /\ UniqueSnpIds /\ NoNameClash
    /\ NRows(SnpInput) = 2 /\ NRows(EqtlInput) = 2 /\ NRows(top_eqtl_df) = 2
    /\ EqtlInput.columns[1] = "SNP" /\ JoinedText[1][1] = "SNPName"

\* An eQTL row that appears twice: its SNP has two rows in the matrix.
C16_DuplicateWitness ==
    /\ Joined /\ ~UniqueSnpIds
    /\ \E k \in 1..NRows(EqtlInput) : Cardinality(RowsFrom(k)) = 2

=============================================================================
